---- MODULE Spec2Model ----
(***************************************************************************)
(* A model of scripts/mcp_long_runner.py: the JSON-RPC session over the    *)
(* child's standard streams (MCPClient), the scenario loop of main(), the  *)
(* run log, the tracking matrix (update_matrix) and mask_payload.          *)
(***************************************************************************)
EXTENDS Integers, Sequences, FiniteSets, TLC

(***************************************************************************)
(* Bounds of the model.                                                    *)
(***************************************************************************)
\* Environment deviations allowed in one run: a child line other than the
\* plain successful response, a silent child, a child exit, a failed
\* credential bootstrap.
MaxFaults == 1
\* Rows of a tracking table drawn for update_matrix (SpecMatrix).
MaxRows == 2
\* update_matrix calls in one SpecMatrix behaviour.
MaxUpdates == 2
\* Passes of the catalog in loop mode.
MaxRounds == 2
\* Nesting depth of the values drawn for mask_payload (SpecMask).
MaxDepth == 2

(***************************************************************************)
(* JSON values, tagged by type. A string is its content's name, the number *)
(* of characters kept of it and an appended tail.                          *)
(***************************************************************************)
Null == [t |-> "null"]
JBool(b) == [t |-> "bool", b |-> b]
JInt(i) == [t |-> "int", i |-> i]
Str(s, n) == [t |-> "str", s |-> s, len |-> n, tail |-> ""]
JList(l) == [t |-> "list", l |-> l]
Dict(f) == [t |-> "dict", d |-> f]
EmptyDict == Dict(<<>>)
EmptyStr == Str("", 0)

\* Python truthiness of a value: bool(v).
Truthy(v) ==
    CASE v.t = "null" -> FALSE
      [] v.t = "bool" -> v.b
      [] v.t = "int" -> v.i # 0
      [] v.t = "str" -> v.len > 0 \/ v.tail # ""
      [] v.t = "list" -> Len(v.l) > 0
      [] v.t = "dict" -> DOMAIN v.d # {}

\* dict.get(k): None for an absent key.
Get(dct, k) == IF k \in DOMAIN dct.d THEN dct.d[k] ELSE Null
\* "k in dct"
Has(dct, k) == k \in DOMAIN dct.d
\* dct[k] = v
Put(dct, k, v) == Dict([x \in DOMAIN dct.d \cup {k} |-> IF x = k THEN v ELSE dct.d[x]])
\* dct.update(other)
Update(dct, other) ==
    Dict([x \in DOMAIN dct.d \cup DOMAIN other.d |->
            IF x \in DOMAIN other.d THEN other.d[x] ELSE dct.d[x]])

(***************************************************************************)
(* The catalog.                                                            *)
(***************************************************************************)
Tags == JList(<<Str("mcp", 3), Str("qa", 2)>>)

Tool(name, base_args, scenario) ==
    [name |-> name, base_args |-> Dict(base_args), scenario |-> scenario]

TOOLS ==
    << Tool("scan_sessions", [limit |-> JInt(5)], "scan recent sessions"),
       Tool("read_session", <<>>, "read session"),
       Tool("analyze_session", <<>>, "analyze session"),
       Tool("post_to_codeblog", <<>>, "post"),
       Tool("auto_post", [dry_run |-> JBool(TRUE)], "auto post preview"),
       Tool("weekly_digest", [dry_run |-> JBool(TRUE)], "weekly digest preview"),
       Tool("preview_post",
            [mode |-> Str("manual", 6), title |-> Str("draft title", 8),
             content |-> Str("draft content", 9), category |-> Str("general", 7),
             tags |-> Tags], "make preview"),
       Tool("confirm_post", <<>>, "publish preview"),
       Tool("create_draft",
            [title |-> Str("draft title", 8), summary |-> Str("auto qa", 5),
             content |-> Str("test draft", 10), tags |-> Tags,
             category |-> Str("tools", 5)], "create draft"),
       Tool("browse_posts", [limit |-> JInt(5)], "browse posts"),
       Tool("search_posts", [query |-> Str("mcp", 3), limit |-> JInt(5)], "search posts"),
       Tool("read_post", <<>>, "read post"),
       Tool("comment_on_post", <<>>, "comment on post"),
       Tool("vote_on_post", <<>>, "vote on post"),
       Tool("edit_post", <<>>, "edit post"),
       Tool("delete_post", <<>>, "delete post"),
       Tool("bookmark_post", [action |-> Str("list", 4)], "bookmarks"),
       Tool("browse_by_tag", [action |-> Str("trending", 8), limit |-> JInt(5)], "browse tags"),
       Tool("trending_topics", <<>>, "trending topics"),
       Tool("explore_and_engage", [action |-> Str("browse", 6), limit |-> JInt(3)], "explore"),
       Tool("join_debate", [action |-> Str("list", 4)], "debates"),
       Tool("follow_agent", [action |-> Str("list_following", 14), limit |-> JInt(5)], "following"),
       Tool("manage_agents", [action |-> Str("list", 4)], "agents"),
       Tool("my_posts", [limit |-> JInt(5), sort |-> Str("new", 3)], "my posts"),
       Tool("my_dashboard", <<>>, "my dashboard"),
       Tool("my_notifications", [action |-> Str("list", 4), limit |-> JInt(10)], "notifications"),
       Tool("codeblog_setup", <<>>, "login setup"),
       Tool("codeblog_status", <<>>, "service status"),
       Tool("collect_daily_stats", <<>>, "collect daily stats"),
       Tool("save_daily_report", <<>>, "save daily report"),
       Tool("configure_daily_report", [get |-> JBool(TRUE)], "daily report config") >>

NumTools == Len(TOOLS)
ToolNames == {TOOLS[i].name : i \in 1..NumTools}

(***************************************************************************)
(* Result texts. A text is described by what the three parsers of the      *)
(* runner see in it: whether json.loads accepts it and the value it gives, *)
(* the group of the first "[preview_id: ...]" match and the group of the   *)
(* first "/post/..." match ("" when there is no match).                    *)
(***************************************************************************)
Text(name, is_json, json, preview, post) ==
    [name |-> name, is_json |-> is_json, json |-> json, preview |-> preview, post |-> post]

NoText == Text("", FALSE, Null, "", "")
Prose(name) == Text(name, FALSE, Null, "", "")
Json(name, v) == Text(name, TRUE, v, "", "")

\* "\n".join(chunks).strip() for the text chunks of one result
JoinText(chunks) ==
    CASE Len(chunks) = 0 -> NoText
      [] Len(chunks) = 1 -> chunks[1]
      [] OTHER ->
           LET pv == SelectSeq(chunks, LAMBDA c : c.preview # "")
               po == SelectSeq(chunks, LAMBDA c : c.post # "")
           IN  Text("joined", FALSE, Null,
                    IF Len(pv) > 0 THEN pv[1].preview ELSE "",
                    IF Len(po) > 0 THEN po[1].post ELSE "")

\* Faulty variant of extract_text: a result flagged as an error gives no text.
extract_text_unless_error(result) ==
    LET entries == IF Has(result, "content") /\ ~Truthy(Get(result, "isError"))
                   THEN result.d["content"] ELSE <<>>
        texts == SelectSeq(entries, LAMBDA e : e.type = "text" /\ e.text.name # "")
    IN  JoinText([i \in 1..Len(texts) |-> texts[i].text])

extract_text(result) ==
    LET entries == IF Has(result, "content") THEN result.d["content"] ELSE <<>>
        texts == SelectSeq(entries, LAMBDA e : e.type = "text" /\ e.text.name # "")
    IN  JoinText([i \in 1..Len(texts) |-> texts[i].text])

\* m.group(1).strip(): a group of blanks strips to the empty string
parse_preview_id(text) == IF text.preview = " " THEN "" ELSE text.preview

parse_post_id(text) == text.post

(***************************************************************************)
(* Argument resolution of main(): the static template overridden from the  *)
(* cross-call context.                                                     *)
(***************************************************************************)
\* json.dumps(v): a string that names the value it serialises
Dumps(v) == [t |-> "str", s |-> "json.dumps", len |-> 40, tail |-> "", of |-> v]

\* Faulty variant of SessionArgs: one of the two context entries is enough.
SessionArgsEither(tool, args_payload, dynamic_context) ==
    IF Truthy(Get(dynamic_context, "session_path")) \/ Truthy(Get(dynamic_context, "session_source"))
    THEN Update(args_payload,
                Dict([path |-> Get(dynamic_context, "session_path"),
                      source |-> Get(dynamic_context, "session_source")]))
    ELSE EmptyDict

SessionArgs(tool, args_payload, dynamic_context) ==
    IF Truthy(Get(dynamic_context, "session_path")) /\ Truthy(Get(dynamic_context, "session_source"))
    THEN IF tool = "post_to_codeblog"
         THEN Dict([title |-> Str("qa auto post", 12),
                    content |-> Str("qa post body", 60),
                    source_session |-> dynamic_context.d["session_path"],
                    tags |-> Tags,
                    summary |-> Str("auto qa post", 7),
                    category |-> Str("tools", 5),
                    language |-> Str("zh", 2)])
         ELSE Update(args_payload,
                     Dict([path |-> dynamic_context.d["session_path"],
                           source |-> dynamic_context.d["session_source"]]))
    ELSE EmptyDict

PostArgs(tool, args_payload, dynamic_context) ==
    LET a == IF Truthy(Get(dynamic_context, "post_id"))
             THEN Put(args_payload, "post_id", dynamic_context.d["post_id"])
             ELSE EmptyDict
        b == IF tool = "comment_on_post" /\ Has(a, "post_id")
             THEN Put(a, "content", Str("qa auto comment", 20))
             ELSE a
    IN  IF tool = "vote_on_post" /\ Has(b, "post_id") THEN Put(b, "value", JInt(0)) ELSE b

\* Faulty variant of OwnPostArgs: the id is taken from the post browsed.
OwnPostArgsFromBrowse(tool, args_payload, dynamic_context) ==
    LET a == IF Truthy(Get(dynamic_context, "post_id"))
             THEN Put(args_payload, "post_id", dynamic_context.d["post_id"])
             ELSE EmptyDict
        b == IF tool = "edit_post" /\ Has(a, "post_id")
             THEN Update(a, Dict([title |-> Str("qa new title", 11), summary |-> Str("new summary", 4)]))
             ELSE a
    IN  IF tool = "delete_post" /\ Has(b, "post_id") THEN Put(b, "confirm", JBool(TRUE)) ELSE b

OwnPostArgs(tool, args_payload, dynamic_context) ==
    LET a == IF Truthy(Get(dynamic_context, "own_post_id"))
             THEN Put(args_payload, "post_id", dynamic_context.d["own_post_id"])
             ELSE EmptyDict
        b == IF tool = "edit_post" /\ Has(a, "post_id")
             THEN Update(a, Dict([title |-> Str("qa new title", 11), summary |-> Str("new summary", 4)]))
             ELSE a
    IN  IF tool = "delete_post" /\ Has(b, "post_id") THEN Put(b, "confirm", JBool(TRUE)) ELSE b

\* Faulty variant of ConfirmArgs: the preview id is passed on even when absent.
ConfirmArgsAlways(args_payload, dynamic_context) ==
    Put(args_payload, "preview_id", Get(dynamic_context, "preview_id"))

ConfirmArgs(args_payload, dynamic_context) ==
    IF Truthy(Get(dynamic_context, "preview_id"))
    THEN Put(args_payload, "preview_id", dynamic_context.d["preview_id"])
    ELSE EmptyDict

SetupArgs(dynamic_context) ==
    IF Truthy(Get(dynamic_context, "qa_email")) /\ Truthy(Get(dynamic_context, "qa_password"))
    THEN Dict([mode |-> Str("login", 5),
               email |-> dynamic_context.d["qa_email"],
               password |-> dynamic_context.d["qa_password"]])
    ELSE Dict([mode |-> Str("browser", 7)])

ReportArgs(dynamic_context) ==
    LET stats == Get(dynamic_context, "raw_stats")
        date == Get(dynamic_context, "stats_date")
        tz == Get(dynamic_context, "stats_tz")
    IN  IF Truthy(stats) /\ Truthy(date) /\ Truthy(tz)
        THEN Dict([date |-> date, timezone |-> tz, stats |-> Dumps(stats)])
        ELSE EmptyDict

\* The arguments main() passes to call_tool for one descriptor.
ResolveArgs(tool, base_args, dynamic_context) ==
    CASE tool \in {"read_session", "analyze_session", "post_to_codeblog"} ->
             SessionArgs(tool, base_args, dynamic_context)
      [] tool \in {"read_post", "comment_on_post", "vote_on_post"} ->
             PostArgs(tool, base_args, dynamic_context)
      [] tool \in {"edit_post", "delete_post"} ->
             OwnPostArgs(tool, base_args, dynamic_context)
      [] tool = "confirm_post" -> ConfirmArgs(base_args, dynamic_context)
      [] tool = "codeblog_setup" -> SetupArgs(dynamic_context)
      [] tool = "save_daily_report" -> ReportArgs(dynamic_context)
      [] OTHER -> base_args

(***************************************************************************)
(* Extraction of main(): what a returned result's text adds to the context.*)
(* An exception inside a try block leaves the context as it was.           *)
(***************************************************************************)
ScanExtract(text, dynamic_context) ==
    IF text.is_json /\ text.json.t = "list" /\ Len(text.json.l) > 0
       /\ text.json.l[1].t = "dict"
    THEN Put(Put(dynamic_context, "session_path", Get(text.json.l[1], "path")),
             "session_source", Get(text.json.l[1], "source"))
    ELSE dynamic_context

BrowseExtract(text, dynamic_context) ==
    IF text.is_json /\ text.json.t = "dict"
       /\ Truthy(Get(text.json, "posts")) /\ Get(text.json, "posts").t = "list"
       /\ Get(text.json, "posts").l[1].t = "dict"
    THEN Put(dynamic_context, "post_id", Get(Get(text.json, "posts").l[1], "id"))
    ELSE dynamic_context

PreviewExtract(text, dynamic_context) ==
    IF parse_preview_id(text) # ""
    THEN Put(dynamic_context, "preview_id", Str(parse_preview_id(text), 3))
    ELSE dynamic_context

StatsExtract(text, dynamic_context) ==
    IF text.is_json /\ text.json.t = "dict"
    THEN Put(Put(Put(dynamic_context, "raw_stats", Get(text.json, "_rawStats")),
                 "stats_date", Get(text.json, "date")),
             "stats_tz", Get(text.json, "timezone"))
    ELSE dynamic_context

OwnPostExtract(text, dynamic_context) ==
    IF parse_post_id(text) # ""
    THEN Put(dynamic_context, "own_post_id", Str(parse_post_id(text), 4))
    ELSE dynamic_context

\* Faulty variant of ConfirmExtract: the id found replaces the one stored.
ConfirmExtractOverwrite(text, dynamic_context) ==
    IF parse_post_id(text) # ""
    THEN Put(dynamic_context, "own_post_id", Str(parse_post_id(text), 4))
    ELSE dynamic_context

ConfirmExtract(text, dynamic_context) ==
    IF parse_post_id(text) # "" /\ ~Truthy(Get(dynamic_context, "own_post_id"))
    THEN Put(dynamic_context, "own_post_id", Str(parse_post_id(text), 4))
    ELSE dynamic_context

Extract(tool, text, dynamic_context) ==
    CASE tool = "scan_sessions" -> ScanExtract(text, dynamic_context)
      [] tool = "browse_posts" -> BrowseExtract(text, dynamic_context)
      [] tool = "preview_post" -> PreviewExtract(text, dynamic_context)
      [] tool = "collect_daily_stats" -> StatsExtract(text, dynamic_context)
      [] tool = "post_to_codeblog" -> OwnPostExtract(text, dynamic_context)
      [] tool = "confirm_post" -> ConfirmExtract(text, dynamic_context)
      [] OTHER -> dynamic_context

(***************************************************************************)
(* mask_payload.                                                           *)
(***************************************************************************)
TruncateAt == 600

sensitive == {"password", "api_key", "apikey", "token"}

\* key.lower(), over the keys of the model
Lower(key) ==
    CASE key \in {"Token", "TOKEN"} -> "token"
      [] key \in {"Password", "PASSWORD"} -> "password"
      [] key \in {"API_KEY", "Api_Key"} -> "api_key"
      [] key \in {"ApiKey", "APIKEY"} -> "apikey"
      [] key \in {"Stats", "STATS"} -> "stats"
      [] OTHER -> key

\* len(value) of a string
StrLen(v) == v.len + (IF v.tail = "" THEN 0 ELSE 14)

\* value[:600] + "...(truncated)"
Truncated(v) == [v EXCEPT !.len = IF v.len < TruncateAt THEN v.len ELSE TruncateAt,
                          !.tail = "...(truncated)"]

RECURSIVE _mask(_, _)
_mask(value, key) ==
    LET low == Lower(key)
    IN  CASE low \in sensitive -> Str("***", 3)
          [] low \notin sensitive /\ low = "stats" -> Str("[stats_json]", 12)
          [] low \notin sensitive /\ low # "stats" /\ value.t = "dict" ->
                 Dict([k \in DOMAIN value.d |-> _mask(value.d[k], k)])
          [] low \notin sensitive /\ low # "stats" /\ value.t = "list" ->
                 JList([i \in 1..Len(value.l) |-> _mask(value.l[i], key)])
          [] low \notin sensitive /\ low # "stats" /\ value.t = "str" /\ StrLen(value) > TruncateAt ->
                 Truncated(value)
          [] OTHER -> value

\* Faulty variant of mask_payload: only the top-level entries are looked at.
mask_payload_top_level(payload) ==
    Dict([k \in DOMAIN payload.d |->
            IF Lower(k) \in sensitive THEN Str("***", 3)
            ELSE IF Lower(k) = "stats" THEN Str("[stats_json]", 12)
            ELSE IF payload.d[k].t = "str" /\ StrLen(payload.d[k]) > TruncateAt
                 THEN Truncated(payload.d[k])
                 ELSE payload.d[k]])

mask_payload(payload) == _mask(payload, "")

(***************************************************************************)
(* The tracking matrix and the run log.                                    *)
(***************************************************************************)
Yes == "yes"
No == "no"
YesNo(b) == IF b THEN Yes ELSE No

\* A row of the matrix nobody has updated yet.
BlankRow(name) ==
    [name |-> name, integrated |-> "", mcp_pass |-> "", dialog_pass |-> "",
     capsule_start |-> "", capsule_end |-> "", error_visible |-> "", run_id |-> 0,
     result |-> "", issue |-> "", root_cause |-> "", fix |-> "", retest |-> "",
     updated |-> 0]

\* The body of the loop of update_matrix for the row it picks.
UpdatedRow(row, run_id, passed, issue, root_cause, fix, retest, time) ==
    [row EXCEPT !.integrated = Yes,
                !.mcp_pass = YesNo(passed),
                !.dialog_pass = YesNo(passed),
                !.capsule_start = YesNo(passed),
                !.capsule_end = YesNo(passed),
                !.error_visible = IF ~passed /\ (issue # "" \/ root_cause # "")
                                  THEN Yes
                                  ELSE (IF row.error_visible # "" THEN row.error_visible ELSE Yes),
                !.run_id = run_id,
                !.result = IF passed THEN "pass" ELSE "fail",
                !.issue = issue,
                !.root_cause = root_cause,
                !.fix = fix,
                !.retest = retest,
                !.updated = time]

\* The row update_matrix changes: the first whose name is the tool's, 0 if none.
TargetRow(data, tool) ==
    IF \E i \in 1..Len(data) : data[i].name = tool
    THEN CHOOSE i \in 1..Len(data) :
            /\ data[i].name = tool
            /\ \A j \in 1..(i - 1) : data[j].name # tool
    ELSE 0

\* Faulty variant of update_matrix: the row's name is not compared, every row is
\* rewritten.
update_matrix_every_row(data, tool, run_id, passed, issue, root_cause, fix, retest, time) ==
    [i \in 1..Len(data) |->
        UpdatedRow(data[i], run_id, passed, issue, root_cause, fix, retest, time)]

\* The data rows update_matrix writes back (the header row is written as read).
update_matrix(data, tool, run_id, passed, issue, root_cause, fix, retest, time) ==
    LET target == TargetRow(data, tool)
    IN  [i \in 1..Len(data) |->
            IF i = target
            THEN UpdatedRow(data[i], run_id, passed, issue, root_cause, fix, retest, time)
            ELSE data[i]]

\* update_matrix has no raise statement: it returns normally for every tool name.
update_matrix_raises(data, tool) == FALSE

\* What one call of update_matrix was given, and the table it read.
UpdateNote(data, tool, run_id, passed, issue, root_cause, fix, retest, time) ==
    [called |-> TRUE, before |-> data, tool |-> tool, run_id |-> run_id, passed |-> passed,
     issue |-> issue, root_cause |-> root_cause, fix |-> fix, retest |-> retest,
     time |-> time, raised |-> update_matrix_raises(data, tool)]

NoUpdate ==
    [called |-> FALSE, before |-> <<>>, tool |-> "", run_id |-> 0, passed |-> FALSE,
     issue |-> "", root_cause |-> "", fix |-> "", retest |-> "", time |-> 0, raised |-> FALSE]

\* The row main() hands to append_run_log.
LogRow(run_id, round, tool, args_payload, scenario, actual, passed, error_msg, root_cause, fix, retest) ==
    [run_id |-> run_id, round |-> round, tool |-> tool, channel |-> "direct",
     args |-> mask_payload(args_payload), scenario |-> scenario, actual |-> actual,
     passed |-> YesNo(passed),
     start_state |-> IF passed THEN "normal" ELSE "abnormal",
     end_state |-> IF passed THEN "normal" ELSE "abnormal",
     has_error |-> IF passed THEN "" ELSE "has",
     error_msg |-> error_msg,
     issue_id |-> IF ~passed THEN "ISSUE-uuid" ELSE "",
     root_cause |-> root_cause, fix |-> fix,
     retest |-> IF retest # "" THEN retest ELSE YesNo(passed)]

\* Faulty variant of append_run_log: the row is put in front.
prepend_run_log(log, row) == <<row>> \o log

append_run_log(log, row) == Append(log, row)

(***************************************************************************)
(* Lines of the child's standard output, and what the child may answer.    *)
(***************************************************************************)
\* payload.get("id") of a line that carries no id
NoId == 0

Result(flag, text) ==
    LET content == <<[type |-> "text", text |-> text]>>
    IN  Dict(IF flag = "absent"
             THEN [content |-> content]
             ELSE [content |-> content, isError |-> JBool(flag = "true")])

Line(form, id, has_error, result) ==
    [form |-> form, id |-> id, has_error |-> has_error, result |-> result]

Resp(id, result) == Line("object", id, FALSE, result)
Err(id) == Line("object", id, TRUE, EmptyDict)
Notif == Line("object", NoId, FALSE, EmptyDict)
Garbage == Line("garbage", NoId, FALSE, EmptyDict)
Array == Line("array", NoId, FALSE, EmptyDict)
NoLine == Line("none", NoId, FALSE, EmptyDict)

Session1 == Dict([path |-> Str("p1", 2), source |-> Str("s1", 2)])

NominalText(tool) ==
    CASE tool = "scan_sessions" -> Json("sessions", JList(<<Session1>>))
      [] tool = "browse_posts" ->
             Json("posts", Dict([posts |-> JList(<<Dict([id |-> Str("b1", 2)])>>)]))
      [] tool = "preview_post" -> Text("preview", FALSE, Null, "pv1", "")
      [] tool = "collect_daily_stats" ->
             Json("stats", Dict(("_rawStats" :> Dict([n |-> JInt(1)]))
                                @@ [date |-> Str("d1", 10), timezone |-> Str("tz1", 3)]))
      [] tool = "post_to_codeblog" -> Text("posted", FALSE, Null, "", "own1")
      [] tool = "confirm_post" -> Text("confirmed", FALSE, Null, "", "own2")
      [] OTHER -> Prose("ok")

AltTexts(tool) ==
    CASE tool = "scan_sessions" ->
             << Prose("garbled"),
                Json("no_source", JList(<<Dict([path |-> Str("p1", 2)])>>)),
                Json("empty_path", JList(<<Dict([path |-> EmptyStr, source |-> Str("s1", 2)])>>)),
                Json("empty_list", JList(<<>>)),
                Json("not_a_list", Dict([sessions |-> JList(<<Session1>>)])),
                Json("list_of_numbers", JList(<<JInt(1)>>)) >>
      [] tool = "browse_posts" ->
             << Prose("garbled"), Json("no_posts", Dict([posts |-> JList(<<>>)])),
                Json("not_a_dict", JList(<<Dict([id |-> Str("b1", 2)])>>)) >>
      [] tool = "preview_post" ->
             << Prose("no_preview"), Text("blank_preview", FALSE, Null, " ", "") >>
      [] tool = "collect_daily_stats" ->
             << Prose("garbled"),
                Json("no_timezone", Dict(("_rawStats" :> Dict([n |-> JInt(1)]))
                                         @@ [date |-> Str("d1", 10)])),
                Json("not_a_dict", JList(<<JInt(1)>>)) >>
      [] tool = "post_to_codeblog" -> << Prose("no_url") >>
      [] tool = "confirm_post" -> << Prose("no_url") >>
      [] OTHER -> << >>

\* A response to another request than the outstanding one: to the request before
\* it, or, for the first request, with an id the session never sends.
Other(id) == Resp(IF id > 1 THEN id - 1 ELSE -1, Result("absent", Prose("late")))

Plain(tool, id) == Resp(id, Result("absent", NominalText(tool)))

\* What the child may write at once while request `id` for `tool` is outstanding:
\* the kind of the write and, for another text, which one.
\*   plain, plain_false   the successful response (isError absent, or false)
\*   flagged              the response with isError true
\*   text                 the successful response with the n-th other text
\*   error                the response with an error member
\*   notif, other, garbage, array        one line that is not the response
\*   notif_plain, other_plain, garbage_plain   such a line and the response together
\*   plain_notif          the response and a notification together
Answers(tool) ==
    { [kind |-> k, n |-> 0] : k \in {"plain", "plain_false", "flagged", "error"} }
    \cup { [kind |-> "text", n |-> i] : i \in 1..Len(AltTexts(tool)) }

Strays == { [kind |-> k, n |-> 0] : k \in {"notif", "other", "garbage", "array"} }

Grouped ==
    { [kind |-> k, n |-> 0] : k \in {"notif_plain", "other_plain", "garbage_plain", "plain_notif"} }

\* `replied`: the child has answered the request already.
Writes(tool, replied) == (IF replied THEN {} ELSE Answers(tool) \cup Grouped) \cup Strays

WriteLines(w, tool, id) ==
    CASE w.kind = "plain" -> <<Plain(tool, id)>>
      [] w.kind = "plain_false" -> <<Resp(id, Result("false", NominalText(tool)))>>
      [] w.kind = "flagged" -> <<Resp(id, Result("true", NominalText(tool)))>>
      [] w.kind = "text" -> <<Resp(id, Result("absent", AltTexts(tool)[w.n]))>>
      [] w.kind = "error" -> <<Err(id)>>
      [] w.kind = "notif" -> <<Notif>>
      [] w.kind = "other" -> <<Other(id)>>
      [] w.kind = "garbage" -> <<Garbage>>
      [] w.kind = "array" -> <<Array>>
      [] w.kind = "notif_plain" -> <<Notif, Plain(tool, id)>>
      [] w.kind = "other_plain" -> <<Other(id), Plain(tool, id)>>
      [] w.kind = "garbage_plain" -> <<Garbage, Plain(tool, id)>>
      [] w.kind = "plain_notif" -> <<Plain(tool, id), Notif>>

\* The deviations a write costs: none for the plain successful response.
WriteCost(w) == IF w.kind \in {"plain", "plain_false"} THEN 0 ELSE 1

(***************************************************************************)
(* MCPClient._rpc: what one line read from the stream does to the wait.    *)
(***************************************************************************)
\* Faulty variant of IdDiffers: the id of the line is not looked at.
IdNeverDiffers(line, id) == FALSE

\* payload.get("id") != req_id
IdDiffers(line, id) == line.id # id

\* Lines 128-136 for a line readline() returned.
Classify(line, id) ==
    CASE line.form = "garbage" -> "json_error"
      [] line.form = "array" -> "attribute_error"
      [] line.form = "object" /\ IdDiffers(line, id) -> "skip"
      [] line.form = "object" /\ ~IdDiffers(line, id) /\ line.has_error -> "remote_error"
      [] OTHER -> "return"

\* readline(): the next buffered line if there is one; otherwise one read of the
\* pipe, which takes everything that has arrived and keeps all but the first
\* line in the buffer.
ReadLine(buffered, piped) ==
    IF buffered # <<>>
    THEN [line |-> Head(buffered), buffered |-> Tail(buffered), piped |-> piped]
    ELSE [line |-> Head(piped), buffered |-> Tail(piped), piped |-> <<>>]

Returned(result) == [kind |-> "result", result |-> result, error |-> ""]
Raised(error) == [kind |-> "raise", result |-> EmptyDict, error |-> error]

(***************************************************************************)
(* The state.                                                              *)
(***************************************************************************)
VARIABLES
    pc,               \* where main() is: boot, handshake, ready, call, done, aborted
    loop,             \* args.loop
    round_no,         \* round_no of main()
    opIdx,            \* the index in TOOLS of the descriptor the for loop is at
    dynamic_context,  \* the cross-call context of the pass
    args_payload,     \* the arguments resolved for the descriptor
    attempts,         \* the call_tool invocations of the run
    proc,             \* client.proc: none, open
    child,            \* the child process: none, running, exited, terminated, killed
    request_id,       \* client.request_id
    req_id,           \* req_id of the _rpc call in progress
    stdin,            \* the messages written to the child of the pass
    pipe,             \* lines the child has written that no read has taken yet
    pybuf,            \* lines a read has taken that readline() has not returned yet
    replied,          \* the child has written its response to req_id
    skipped,          \* the lines the _rpc call in progress has read and passed over
    lastRpc,          \* how the latest _rpc call ended
    run_log,          \* the rows of the run log file
    matrix,           \* the data rows of the matrix file
    now,              \* the clock now_iso() reads
    lastUpdate,       \* the latest update_matrix call
    maskIn,           \* a payload handed to mask_payload
    maskOut,          \* what mask_payload returned for it
    faultsLeft        \* environment deviations still allowed

vars ==
    <<pc, loop, round_no, opIdx, dynamic_context, args_payload, attempts, proc, child,
      request_id, req_id, stdin, pipe, pybuf, replied, skipped, lastRpc, run_log, matrix,
      now, lastUpdate, maskIn, maskOut, faultsLeft>>

NotMasked == [t |-> "none"]

\* How an _rpc call ended: its request id, the outcome, the line it returned from,
\* the lines it passed over, and whether the child had written its response.
RpcEnd(req, out, line, passed_over, answered) ==
    [req |-> req, out |-> out, line |-> line, skipped |-> passed_over, replied |-> answered]

\* Faulty variant of Request: the message is built from the masked arguments.
RequestMasked(id, method, name, arguments) ==
    [id |-> id, method |-> method, name |-> name, arguments |-> mask_payload(arguments)]

\* Faulty variant of Request: every message carries the id 1.
RequestFirstId(id, method, name, arguments) ==
    [id |-> 1, method |-> method, name |-> name, arguments |-> arguments]

Request(id, method, name, arguments) ==
    [id |-> id, method |-> method, name |-> name, arguments |-> arguments]

RunId(round) == round

\* No client has been constructed.
NoClient ==
    /\ round_no = 1
    /\ opIdx = 0
    /\ dynamic_context = EmptyDict
    /\ args_payload = EmptyDict
    /\ attempts = <<>>
    /\ proc = "none"
    /\ child = "none"
    /\ request_id = 1
    /\ req_id = 0
    /\ stdin = <<>>
    /\ pipe = <<>>
    /\ pybuf = <<>>
    /\ replied = FALSE
    /\ skipped = <<>>
    /\ lastRpc = RpcEnd(0, "none", NoLine, <<>>, FALSE)
    /\ run_log = <<>>

InitRun(l) ==
    /\ pc = "boot"
    /\ loop = l
    /\ NoClient
    /\ matrix = [i \in 1..NumTools |-> BlankRow(TOOLS[i].name)]
    /\ now = 1
    /\ lastUpdate = NoUpdate
    /\ maskIn = EmptyDict
    /\ maskOut = NotMasked
    /\ faultsLeft = MaxFaults

Init == InitRun(FALSE)

(***************************************************************************)
(* main(): the end of a call, the handshake's end, close().                *)
(***************************************************************************)
\* Faulty variant of close(): a child that ignores terminate() is not killed.
CloseNoKill(forced) ==
    /\ child' = IF proc = "open" /\ child = "running" /\ ~forced THEN "terminated" ELSE child
    /\ proc' = "none"

\* MCPClient.close(): a running child is terminated, and killed if it has not
\* exited within the grace period.
Close(forced) ==
    /\ child' = IF proc = "open" /\ child = "running"
                THEN (IF forced THEN "killed" ELSE "terminated")
                ELSE child
    /\ proc' = "none"

\* An exception leaves the try block of main(): finally close(), and the run ends.
Abort ==
    /\ \E forced \in BOOLEAN : Close(forced)
    /\ pc' = "aborted"
    /\ UNCHANGED <<opIdx, dynamic_context, run_log, matrix, now, stdin>>

\* Faulty variant of HandshakeDone: start() does not send the notification.
HandshakeDoneNoNotify(outcome) ==
    IF outcome.kind = "result" /\ child = "running"
    THEN /\ pc' = "ready"
         /\ opIdx' = 1
         /\ UNCHANGED <<stdin, child, proc, dynamic_context, run_log, matrix, now>>
    ELSE Abort

\* Faulty variant of HandshakeDone: start() goes on whatever the handshake gave.
HandshakeDoneAnyway(outcome) ==
    IF child = "running"
    THEN /\ stdin' = Append(stdin, Request(NoId, "notifications/initialized", "", EmptyDict))
         /\ pc' = "ready"
         /\ opIdx' = 1
         /\ UNCHANGED <<child, proc, dynamic_context, run_log, matrix, now>>
    ELSE Abort

\* MCPClient.start() after _rpc("initialize") ended with `outcome`.
HandshakeDone(outcome) ==
    IF outcome.kind = "result" /\ child = "running"
    THEN /\ stdin' = Append(stdin, Request(NoId, "notifications/initialized", "", EmptyDict))
         /\ pc' = "ready"
         /\ opIdx' = 1
         /\ UNCHANGED <<child, proc, dynamic_context, run_log, matrix, now>>
    ELSE Abort

\* Faulty variant of Caught: only the timeout is caught.
CaughtTimeoutOnly(error) == error = "timed out"

\* Faulty variant of Caught: the timeout escapes the loop of main().
CaughtAllButTimeout(error) ==
    error \in {"exited", "remote_error", "json_error", "attribute_error", "broken pipe"}

\* "except Exception": the errors a call can raise are all Exception subclasses
\* (TimeoutError, RuntimeError, json.JSONDecodeError, AttributeError, BrokenPipeError).
Caught(error) ==
    error \in {"timed out", "exited", "remote_error", "json_error", "attribute_error",
               "broken pipe"}

\* Faulty variant of PassFlag: any isError member, also false, fails the call.
PassFlagIfAbsent(result) == ~Has(result, "isError")

\* not bool(result.get("isError"))
PassFlag(result) == ~Truthy(Get(result, "isError"))

\* Lines 350-450 for the descriptor at opIdx once call_tool ended with `outcome`.
CallDone(outcome, args) ==
  IF outcome.kind = "raise" /\ ~Caught(outcome.error)
  THEN Abort
  ELSE
    LET d == TOOLS[opIdx]
        ok == outcome.kind = "result"
        text == IF ok THEN extract_text(outcome.result) ELSE NoText
        passed == ok /\ PassFlag(outcome.result)
        error_msg == IF ok THEN "" ELSE outcome.error
        actual == IF ok THEN text.name ELSE error_msg
        issue == IF ok THEN "" ELSE "auto acceptance failed"
        root_cause == IF ok THEN "" ELSE "tool call exception: " \o error_msg
        fix == IF ok THEN "" ELSE "supply the prerequisites and retry"
        retest == IF ok THEN "" ELSE No
        retest_out == IF retest # "" THEN retest ELSE YesNo(passed)
    IN  /\ dynamic_context' = IF ok THEN Extract(d.name, text, dynamic_context)
                              ELSE dynamic_context
        /\ run_log' = append_run_log(run_log,
                         LogRow(RunId(round_no), round_no, d.name, args, d.scenario, actual,
                                passed, error_msg, root_cause, fix, retest))
        /\ matrix' = update_matrix(matrix, d.name, RunId(round_no), passed, issue,
                                   root_cause, fix, retest_out, now)
        /\ now' = now + 1
        /\ opIdx' = opIdx + 1
        /\ pc' = "ready"
        /\ UNCHANGED <<child, proc, stdin>>

Finish(outcome) ==
    IF pc = "handshake" THEN HandshakeDone(outcome) ELSE CallDone(outcome, args_payload)

\* The wait goes on: back to select().
KeepWaiting ==
    UNCHANGED <<pc, opIdx, dynamic_context, run_log, matrix, now, stdin, child, proc>>

Waiting == pc \in {"handshake", "call"}

(***************************************************************************)
(* The actions.                                                            *)
(***************************************************************************)
\* The credentials main() puts into the context of a pass.
Credentials(creds_ok) ==
    IF creds_ok
    THEN Dict([qa_email |-> Str("qa@example.com", 14), qa_password |-> Str("secret", 6)])
    ELSE Dict([qa_email |-> EmptyStr, qa_password |-> EmptyStr])

\* Faulty variant of FreshContext: the context of the pass before is kept.
KeptContext(creds_ok) == Update(dynamic_context, Credentials(creds_ok))

\* Lines 266-274: the context a pass starts with.
FreshContext(creds_ok) == Update(EmptyDict, Credentials(creds_ok))

\* Lines 263-278, MCPClient.start() up to the wait for the handshake's response.
StartPass ==
    /\ pc = "boot"
    /\ round_no <= MaxRounds
    /\ \E creds_ok \in BOOLEAN, spawn_ok \in BOOLEAN :
          LET cost == (IF creds_ok THEN 0 ELSE 1) + (IF spawn_ok THEN 0 ELSE 1)
          IN  /\ cost <= faultsLeft
              /\ faultsLeft' = faultsLeft - cost
              /\ dynamic_context' = FreshContext(creds_ok)
              /\ IF spawn_ok
                 THEN /\ proc' = "open"
                      /\ child' = "running"
                      /\ req_id' = 1
                      /\ request_id' = 2
                      /\ stdin' = <<Request(1, "initialize", "", EmptyDict)>>
                      /\ pc' = "handshake"
                 ELSE /\ proc' = "none"
                      /\ child' = "none"
                      /\ req_id' = 0
                      /\ request_id' = 1
                      /\ stdin' = <<>>
                      /\ pc' = "aborted"
    /\ opIdx' = 0
    /\ pipe' = <<>>
    /\ pybuf' = <<>>
    /\ replied' = FALSE
    /\ skipped' = <<>>
    /\ UNCHANGED <<loop, round_no, args_payload, attempts, lastRpc, run_log, matrix, now,
                   lastUpdate, maskIn, maskOut>>

\* Lines 280-359 and _rpc up to its loop: the next descriptor's call is made.
Invoke ==
    /\ pc = "ready"
    /\ opIdx <= NumTools
    /\ LET d == TOOLS[opIdx]
           args == ResolveArgs(d.name, d.base_args, dynamic_context)
       IN  /\ args_payload' = args
           /\ attempts' = Append(attempts,
                                  [round |-> round_no, tool |-> d.name, arguments |-> args,
                                   context |-> dynamic_context, id |-> request_id,
                                   sent |-> (child = "running")])
           /\ req_id' = request_id
           /\ request_id' = request_id + 1
           /\ replied' = FALSE
           /\ skipped' = <<>>
           /\ IF child = "running"
              THEN /\ stdin' = Append(stdin, Request(request_id, "tools/call", d.name, args))
                   /\ pc' = "call"
                   /\ UNCHANGED <<lastRpc, opIdx, dynamic_context, run_log, matrix, now,
                                  child, proc>>
              ELSE /\ lastRpc' = RpcEnd(request_id, "broken pipe", NoLine, <<>>, FALSE)
                   /\ CallDone(Raised("broken pipe"), args)
    /\ UNCHANGED <<loop, round_no, pipe, pybuf, lastUpdate, maskIn, maskOut, faultsLeft>>

\* The child writes lines to its standard output.
ChildWrite ==
    /\ Waiting
    /\ child = "running"
    /\ LET tool == IF pc = "call" THEN TOOLS[opIdx].name ELSE "initialize"
       IN  \E w \in Writes(tool, replied) :
              /\ WriteCost(w) <= faultsLeft
              /\ faultsLeft' = faultsLeft - WriteCost(w)
              /\ pipe' = pipe \o WriteLines(w, tool, req_id)
              /\ replied' = (replied \/ w \notin Strays)
    /\ UNCHANGED <<pc, loop, round_no, opIdx, dynamic_context, args_payload, attempts, proc,
                   child, request_id, req_id, stdin, pybuf, skipped, lastRpc, run_log, matrix,
                   now, lastUpdate, maskIn, maskOut>>

\* The child exits on its own.
ChildExit ==
    /\ Waiting
    /\ child = "running"
    /\ faultsLeft > 0
    /\ faultsLeft' = faultsLeft - 1
    /\ child' = "exited"
    /\ UNCHANGED <<pc, loop, round_no, opIdx, dynamic_context, args_payload, attempts, proc,
                   request_id, req_id, stdin, pipe, pybuf, replied, skipped, lastRpc, run_log,
                   matrix, now, lastUpdate, maskIn, maskOut>>

\* One turn of the loop of _rpc when select() reports the stream readable (data
\* in the pipe, or its end once the child has exited), up to the next select().
\* A child that has exited is seen by poll() at the top of the turn, unless it
\* exited after poll() ran: then the turn still reads a line.
RpcRead ==
    /\ Waiting
    /\ pipe # <<>> \/ child = "exited"
    /\ \/ /\ child = "exited"
          /\ lastRpc' = RpcEnd(req_id, "exited", NoLine, skipped, replied)
          /\ Finish(Raised("exited"))
          /\ UNCHANGED <<pipe, pybuf, skipped>>
       \/ /\ pipe # <<>> \/ pybuf # <<>>
          /\ LET r == ReadLine(pybuf, pipe)
                 c == Classify(r.line, req_id)
             IN  /\ pipe' = r.piped
                 /\ pybuf' = r.buffered
                 /\ CASE c = "return" ->
                           /\ lastRpc' = RpcEnd(req_id, "result", r.line, skipped, replied)
                           /\ Finish(Returned(r.line.result))
                           /\ UNCHANGED skipped
                      [] c = "skip" /\ child = "exited" ->
                           /\ lastRpc' = RpcEnd(req_id, "exited", NoLine,
                                                Append(skipped, r.line), replied)
                           /\ Finish(Raised("exited"))
                           /\ skipped' = Append(skipped, r.line)
                      [] c = "skip" /\ child # "exited" ->
                           /\ skipped' = Append(skipped, r.line)
                           /\ UNCHANGED lastRpc
                           /\ KeepWaiting
                      [] OTHER ->
                           /\ lastRpc' = RpcEnd(req_id, c, r.line, skipped, replied)
                           /\ Finish(Raised(c))
                           /\ UNCHANGED skipped
    /\ UNCHANGED <<loop, round_no, args_payload, attempts, request_id, req_id, replied,
                   lastUpdate, maskIn, maskOut, faultsLeft>>

\* select() reports nothing readable before the deadline: the pipe stays empty
\* and the child runs on.
RpcTimeout ==
    /\ Waiting
    /\ child = "running"
    /\ pipe = <<>>
    /\ replied \/ faultsLeft > 0
    /\ faultsLeft' = IF replied THEN faultsLeft ELSE faultsLeft - 1
    /\ lastRpc' = RpcEnd(req_id, "timed out", NoLine, skipped, replied)
    /\ Finish(Raised("timed out"))
    /\ UNCHANGED <<loop, round_no, args_payload, attempts, request_id, req_id, pipe, pybuf,
                   replied, skipped, lastUpdate, maskIn, maskOut>>

\* Lines 451-458: the for loop is over; close(), then the next round or the end.
EndPass ==
    /\ pc = "ready"
    /\ opIdx > NumTools
    /\ \E forced \in BOOLEAN : Close(forced)
    /\ IF loop
       THEN pc' = "boot" /\ round_no' = round_no + 1
       ELSE pc' = "done" /\ UNCHANGED round_no
    /\ UNCHANGED <<loop, opIdx, dynamic_context, args_payload, attempts, request_id, req_id,
                   stdin, pipe, pybuf, replied, skipped, lastRpc, run_log, matrix, now,
                   lastUpdate, maskIn, maskOut, faultsLeft>>

Next == StartPass \/ Invoke \/ ChildWrite \/ ChildExit \/ RpcRead \/ RpcTimeout \/ EndPass

Spec == Init /\ [][Next]_vars

\* The run with --loop: up to MaxRounds passes.
InitLoop == InitRun(TRUE)

SpecLoop == InitLoop /\ [][Next]_vars

(***************************************************************************)
(* update_matrix on its own: any table with one row per operation name,    *)
(* any sequence of updates.                                                *)
(***************************************************************************)
RowNames == {"scan_sessions", "edit_post", "my_posts"}

\* Rows as the file may hold them: never updated, updated by an earlier failed
\* run, or with the error column filled in by hand.
RowsOf(name) ==
    { BlankRow(name),
      UpdatedRow(BlankRow(name), 0, FALSE, "old issue", "old cause", "old fix", No, 0),
      [BlankRow(name) EXCEPT !.error_visible = No] }

RECURSIVE Tables(_)
Tables(n) ==
    IF n = 0 THEN { <<>> }
    ELSE Tables(n - 1) \cup
         { Append(tb, r) : tb \in { x \in Tables(n - 1) : Len(x) = n - 1 },
                           r \in UNION { RowsOf(nm) : nm \in RowNames } }

OneRowPerName(data) ==
    \A i, j \in 1..Len(data) : data[i].name = data[j].name => i = j

InitMatrix ==
    /\ pc = "matrix"
    /\ loop = FALSE
    /\ NoClient
    /\ matrix \in { tb \in Tables(MaxRows) : OneRowPerName(tb) }
    /\ now = 1
    /\ lastUpdate = NoUpdate
    /\ maskIn = EmptyDict
    /\ maskOut = NotMasked
    /\ faultsLeft = 0

\* One call of update_matrix, for any tool name and any outcome.
UpdateMatrix ==
    /\ pc = "matrix"
    /\ now <= MaxUpdates
    /\ \E tool \in RowNames \cup {"unknown_tool"}, passed \in BOOLEAN, failed_call \in BOOLEAN :
          LET issue == IF failed_call THEN "auto acceptance failed" ELSE ""
              root_cause == IF failed_call THEN "tool call exception: timed out" ELSE ""
              fix == IF failed_call THEN "supply the prerequisites and retry" ELSE ""
              retest == IF failed_call THEN No ELSE YesNo(passed)
          IN  /\ ~(failed_call /\ passed)
              /\ matrix' = update_matrix(matrix, tool, now, passed, issue, root_cause, fix,
                                         retest, now)
              /\ lastUpdate' = UpdateNote(matrix, tool, now, passed, issue, root_cause, fix,
                                          retest, now)
    /\ now' = now + 1
    /\ UNCHANGED <<pc, loop, round_no, opIdx, dynamic_context, args_payload, attempts, proc,
                   child, request_id, req_id, stdin, pipe, pybuf, replied, skipped, lastRpc,
                   run_log, maskIn, maskOut, faultsLeft>>

SpecMatrix == InitMatrix /\ [][UpdateMatrix]_vars

(***************************************************************************)
(* mask_payload on its own: any nested payload up to MaxDepth.             *)
(***************************************************************************)
Leaves ==
    { Null, JBool(TRUE), JInt(7), Str("abc123", 6), Str("x", 600), Str("x", 601),
      Str("x", 1000) }

Keys == {"token", "Token", "API_KEY", "password", "apikey", "stats", "Stats", "note", "items"}

RECURSIVE Values(_)
Values(n) ==
    IF n = 0 THEN Leaves
    ELSE Leaves
         \cup { JList(<<x>>) : x \in Values(n - 1) }
         \cup { Dict(k :> x) : k \in Keys, x \in Values(n - 1) }

Payloads ==
    { v \in Values(MaxDepth) : v.t = "dict" }
    \cup { Dict(("token" :> x) @@ ("note" :> y)) : x, y \in Leaves }
    \cup { Dict("items" :> JList(<<x, y>>)) : x, y \in Leaves }

InitMask ==
    /\ pc = "mask"
    /\ loop = FALSE
    /\ NoClient
    /\ matrix = <<>>
    /\ now = 1
    /\ lastUpdate = NoUpdate
    /\ maskIn \in Payloads
    /\ maskOut = NotMasked
    /\ faultsLeft = 0

\* One call of mask_payload.
MaskPayload ==
    /\ pc = "mask"
    /\ maskOut = NotMasked
    /\ maskOut' = mask_payload(maskIn)
    /\ UNCHANGED <<pc, loop, round_no, opIdx, dynamic_context, args_payload, attempts, proc,
                   child, request_id, req_id, stdin, pipe, pybuf, replied, skipped, lastRpc,
                   run_log, matrix, now, lastUpdate, maskIn, faultsLeft>>

SpecMask == InitMask /\ [][MaskPayload]_vars

(***************************************************************************)
(* Properties of the session (MCPClient._rpc).                             *)
(***************************************************************************)
\* C1: a call that returns returns the result of a response line whose id is the
\* id of its request; the payload of a line with another id (a late response to an
\* earlier request, a notification) is never returned and never recorded.
C1_ReturnsOnlyMatchingId ==
    /\ lastRpc.out = "result" =>
          /\ lastRpc.line.form = "object"
          /\ lastRpc.line.id = lastRpc.req
          /\ ~lastRpc.line.has_error
    /\ \A k \in DOMAIN run_log : run_log[k].actual # "late"

\* A call returned its own response after passing over the late response to the
\* request before it, which had timed out.
C1_Witness ==
    /\ lastRpc.out = "result"
    /\ lastRpc.line.id = lastRpc.req
    /\ \E i \in DOMAIN lastRpc.skipped :
          lastRpc.skipped[i].id = lastRpc.req - 1 /\ lastRpc.skipped[i].id # NoId
    /\ \E k \in DOMAIN run_log : run_log[k].error_msg = "timed out"

\* C2: a call whose matching response the running child has written before the
\* deadline, after well-formed lines with other ids or none, does not time out.
C2_NoFalseTimeout ==
    ~ /\ lastRpc.out = "timed out"
      /\ lastRpc.replied
      /\ \A i \in DOMAIN lastRpc.skipped : lastRpc.skipped[i].form = "object"

\* C3: no line that is not the matching response ends the wait: the call never
\* fails on reading a line that is not a JSON object.
C3_StrayLinesSkipped == lastRpc.out \notin {"json_error", "attribute_error"}

(***************************************************************************)
(* Properties of the pass (main).                                          *)
(***************************************************************************)
RoundRows == SelectSeq(run_log, LAMBDA r : r.round = round_no)
RoundAttempts == SelectSeq(attempts, LAMBDA a : a.round = round_no)
ToolCalls == SelectSeq(stdin, LAMBDA m : m.method = "tools/call")

\* C4: while the child stays alive after the handshake, the pass is never cut
\* short by an operation's failure: there is one record and one tool-call request
\* per descriptor reached, in catalog order, and NumTools records at the end.
C4_OneRecordPerDescriptor ==
    /\ (pc \in {"ready", "call", "done"} /\ child \in {"running", "terminated", "killed"}) =>
          /\ Len(RoundRows) = opIdx - 1
          /\ \A k \in 1..Len(RoundRows) : RoundRows[k].tool = TOOLS[k].name
          /\ Len(ToolCalls) = IF pc = "call" THEN opIdx ELSE opIdx - 1
          /\ \A k \in 1..Len(ToolCalls) : ToolCalls[k].name = TOOLS[k].name
          /\ pc = "done" => Len(RoundRows) = NumTools
    /\ (pc = "aborted" /\ child \in {"terminated", "killed"}) => opIdx = 0

\* A pass ended with NumTools records although an operation before the last
\* failed with a remote error.
C4_Witness ==
    /\ pc = "done"
    /\ child \in {"terminated", "killed"}
    /\ Len(RoundRows) = NumTools
    /\ \E k \in 1..(NumTools - 2) :
          /\ RoundRows[k].error_msg = "remote_error"
          /\ RoundRows[k].passed = No
          /\ RoundRows[k + 1].passed = Yes

\* C5: the record of the call that saw the child exit is the last record of its
\* pass, and no call is attempted after it in that pass.
C5_ExitEndsPass ==
    \A k \in DOMAIN run_log :
        run_log[k].error_msg = "exited" =>
            /\ \A j \in DOMAIN run_log : j > k => run_log[j].round # run_log[k].round
            /\ \A i \in DOMAIN attempts :
                  (attempts[i].round = run_log[k].round /\ attempts[i].tool # run_log[k].tool)
                      => \E j \in 1..k : run_log[j].round = attempts[i].round
                                         /\ run_log[j].tool = attempts[i].tool

\* A value the extraction stored: neither None nor the empty string.
Stored(v) == v # Null /\ v # EmptyStr

\* C6: the arguments resolved for read_session are exactly the session path and
\* the session source of the context when both are stored, and empty otherwise.
C6_ScanToRead ==
    \A i \in DOMAIN attempts :
        attempts[i].tool = "read_session" =>
            LET path == Get(attempts[i].context, "session_path")
                source == Get(attempts[i].context, "session_source")
            IN  IF Stored(path) /\ Stored(source)
                THEN /\ DOMAIN attempts[i].arguments.d = {"path", "source"}
                     /\ attempts[i].arguments.d["path"] = path
                     /\ attempts[i].arguments.d["source"] = source
                ELSE attempts[i].arguments = EmptyDict

\* read_session was called with the path and the source the scan's result gave.
C6_Witness ==
    \E i \in DOMAIN attempts :
        /\ attempts[i].tool = "read_session"
        /\ attempts[i].sent
        /\ attempts[i].arguments = Dict([path |-> Str("p1", 2), source |-> Str("s1", 2)])
        /\ \E k \in DOMAIN run_log : run_log[k].tool = "scan_sessions" /\ run_log[k].actual = "sessions"

\* The context entries an operation's arguments are resolved from.
Required(tool) ==
    CASE tool \in {"read_session", "analyze_session", "post_to_codeblog"} ->
             {"session_path", "session_source"}
      [] tool \in {"read_post", "comment_on_post", "vote_on_post"} -> {"post_id"}
      [] tool \in {"edit_post", "delete_post"} -> {"own_post_id"}
      [] tool = "confirm_post" -> {"preview_id"}
      [] tool = "codeblog_setup" -> {"qa_email", "qa_password"}
      [] tool = "save_daily_report" -> {"raw_stats", "stats_date", "stats_tz"}
      [] OTHER -> {}

\* A required entry of the operation is absent from the context, or empty.
Lacking(tool, context) == \E k \in Required(tool) : ~Truthy(Get(context, k))

\* Every descriptor the loop has passed was called, and the request written for
\* a call made while the child ran carries the call's arguments.
NothingSkipped ==
    /\ pc \in {"ready", "call", "done"} =>
          /\ Len(RoundAttempts) = IF pc = "call" THEN opIdx ELSE opIdx - 1
          /\ \A k \in 1..Len(RoundAttempts) : RoundAttempts[k].tool = TOOLS[k].name
    /\ \A k \in 1..Len(RoundAttempts) :
          RoundAttempts[k].sent =>
              \E j \in DOMAIN stdin :
                  /\ stdin[j].id = RoundAttempts[k].id
                  /\ stdin[j].method = "tools/call"
                  /\ stdin[j].name = RoundAttempts[k].tool
                  /\ stdin[j].arguments = RoundAttempts[k].arguments

\* C7 as claimed: an operation that lacks a required context entry is still
\* called, with an empty argument set.
C7_EmptyArgsWhenLacking ==
    /\ NothingSkipped
    /\ \A i \in DOMAIN attempts :
          Lacking(attempts[i].tool, attempts[i].context) => attempts[i].arguments = EmptyDict

\* C7 as amended: the same, but codeblog_setup is called with {mode: browser}.
C7_DegradedArgsWhenLacking ==
    /\ NothingSkipped
    /\ \A i \in DOMAIN attempts :
          Lacking(attempts[i].tool, attempts[i].context) =>
              attempts[i].arguments =
                  IF attempts[i].tool = "codeblog_setup"
                  THEN Dict([mode |-> Str("browser", 7)])
                  ELSE EmptyDict

\* confirm_post was called, and its request written, with no arguments because
\* the preview gave no id.
C7_Witness ==
    \E i \in DOMAIN attempts :
        /\ attempts[i].tool = "confirm_post"
        /\ Lacking("confirm_post", attempts[i].context)
        /\ attempts[i].sent
        /\ attempts[i].arguments = EmptyDict
        /\ \E j \in DOMAIN stdin :
              stdin[j].id = attempts[i].id /\ stdin[j].arguments = EmptyDict

(***************************************************************************)
(* Properties of update_matrix.                                            *)
(***************************************************************************)
NamesOf(data) == { data[i].name : i \in 1..Len(data) }

\* The row holds what the update was given.
HoldsUpdate(row, u) ==
    /\ row.integrated = Yes
    /\ row.mcp_pass = YesNo(u.passed)
    /\ row.dialog_pass = YesNo(u.passed)
    /\ row.capsule_start = YesNo(u.passed)
    /\ row.capsule_end = YesNo(u.passed)
    /\ row.error_visible \in {Yes, No}
    /\ row.run_id = u.run_id
    /\ row.result = (IF u.passed THEN "pass" ELSE "fail")
    /\ row.issue = u.issue
    /\ row.root_cause = u.root_cause
    /\ row.fix = u.fix
    /\ row.retest = u.retest
    /\ row.updated = u.time

\* C8: an update of an operation the table has a row for leaves the number of
\* rows as it was, leaves one row for the operation, holding the values of this
\* update, and leaves every other row as it was; so after any number of updates.
C8_UpdateByKey ==
    (lastUpdate.called /\ lastUpdate.tool \in NamesOf(lastUpdate.before)) =>
        /\ Len(matrix) = Len(lastUpdate.before)
        /\ Cardinality({ i \in 1..Len(matrix) : matrix[i].name = lastUpdate.tool }) = 1
        /\ \A i \in 1..Len(matrix) :
              IF lastUpdate.before[i].name = lastUpdate.tool
              THEN /\ matrix[i].name = lastUpdate.tool
                   /\ HoldsUpdate(matrix[i], lastUpdate)
              ELSE matrix[i] = lastUpdate.before[i]

\* The same operation was updated twice in a row, in a table with another row.
C8_Witness ==
    /\ lastUpdate.called
    /\ Len(matrix) >= 2
    /\ \E i \in 1..Len(matrix) :
          /\ matrix[i].name = lastUpdate.tool
          /\ lastUpdate.before[i].name = lastUpdate.tool
          /\ lastUpdate.before[i].updated = lastUpdate.time - 1
          /\ lastUpdate.before[i].run_id # lastUpdate.run_id
          /\ matrix[i].run_id = lastUpdate.run_id
          /\ lastUpdate.before[i].mcp_pass # matrix[i].mcp_pass

\* C9: an update for an operation name the table has no row for fails, and adds
\* no row.
C9_UnknownOperationFails ==
    (lastUpdate.called /\ lastUpdate.tool \notin NamesOf(lastUpdate.before)) =>
        /\ lastUpdate.raised
        /\ Len(matrix) = Len(lastUpdate.before)
        /\ lastUpdate.tool \notin NamesOf(matrix)

(***************************************************************************)
(* Properties of mask_payload.                                             *)
(***************************************************************************)
SensitiveKeys == {"token", "Token", "API_KEY", "password", "apikey"}
StatsKeys == {"stats", "Stats"}

\* `masked` is `value`, found under `key`, as the masking rules leave it.
RECURSIVE Masked(_, _, _)
Masked(value, key, masked) ==
    IF key \in SensitiveKeys THEN masked = [t |-> "str", s |-> "***", len |-> 3, tail |-> ""]
    ELSE IF key \in StatsKeys
         THEN masked = [t |-> "str", s |-> "[stats_json]", len |-> 12, tail |-> ""]
    ELSE IF value.t = "dict"
         THEN /\ masked.t = "dict"
              /\ DOMAIN masked.d = DOMAIN value.d
              /\ \A k \in DOMAIN value.d : Masked(value.d[k], k, masked.d[k])
    ELSE IF value.t = "list"
         THEN /\ masked.t = "list"
              /\ Len(masked.l) = Len(value.l)
              /\ \A i \in 1..Len(value.l) : Masked(value.l[i], key, masked.l[i])
    ELSE IF value.t = "str" /\ value.len > 600
         THEN masked = [t |-> "str", s |-> value.s, len |-> 600, tail |-> "...(truncated)"]
    ELSE masked = value

\* C10: mask_payload replaces every value under a sensitive key, in any case and
\* at any depth, by "***", every value under a stats key by the placeholder, cuts
\* every other string longer than 600 characters to 600 plus the marker, and
\* returns every other value as it was.
C10_Masking == maskOut # NotMasked => Masked(maskIn, "", maskOut)

\* The payload {"token": "abc123", "note": "x" * 1000} was masked.
C10_Witness ==
    /\ maskIn = Dict(("token" :> Str("abc123", 6)) @@ ("note" :> Str("x", 1000)))
    /\ maskOut = Dict(("token" :> Str("***", 3))
                      @@ ("note" :> [t |-> "str", s |-> "x", len |-> 600,
                                     tail |-> "...(truncated)"]))

(***************************************************************************)
(* Properties of the pass, continued.                                      *)
(***************************************************************************)
\* The latest _rpc call was a tool call that timed out.
TimedOutCall == lastRpc.out = "timed out" /\ lastRpc.req > 1

\* The attempts and the rows of round r.
AttemptsOf(r) == SelectSeq(attempts, LAMBDA a : a.round = r)
RecordsOf(r) == SelectSeq(run_log, LAMBDA x : x.round = r)

\* C11: a tool call that timed out is recorded as failed and does not end the
\* pass: the child is left running and the session open, the operation is not
\* called again in the pass, and the next descriptor's request is written to the
\* same child.
C11_TimeoutNonFatal ==
    /\ TimedOutCall => pc # "aborted"
    /\ (TimedOutCall /\ pc = "ready") =>
          /\ child = "running"
          /\ proc = "open"
          /\ run_log[Len(run_log)].error_msg = "timed out"
          /\ run_log[Len(run_log)].passed = No
          /\ run_log[Len(run_log)].tool = TOOLS[opIdx - 1].name
    /\ \A r \in 1..round_no :
          LET as == AttemptsOf(r)
              rs == RecordsOf(r)
          IN  /\ \A i, j \in 1..Len(as) : as[i].tool = as[j].tool => i = j
              /\ \A k \in 1..Len(rs) :
                    rs[k].error_msg = "timed out" =>
                        /\ rs[k].passed = No
                        /\ as[k].tool = rs[k].tool
                        /\ k < Len(as) => (as[k + 1].sent /\ as[k + 1].tool = TOOLS[k + 1].name)

\* A call timed out, and the call of the next descriptor was made on the running
\* child and returned.
C11_Witness ==
    /\ pc = "ready"
    /\ child = "running"
    /\ lastRpc.out = "result"
    /\ Len(run_log) >= 2
    /\ run_log[Len(run_log) - 1].error_msg = "timed out"
    /\ run_log[Len(run_log)].passed = Yes
    /\ attempts[Len(attempts)].sent

\* The child of the pass could not be launched.
LaunchFailed == child = "none" /\ pc # "boot"

\* The handshake of the pass ended with an error response or timed out.
HandshakeFailed == lastRpc.req = 1 /\ lastRpc.out \in {"remote_error", "timed out"}

\* The pass has sent no tool call, appended no record and updated no matrix row.
NoPassEffects ==
    /\ ToolCalls = <<>>
    /\ RoundAttempts = <<>>
    /\ RoundRows = <<>>
    /\ \A i \in 1..Len(matrix) : matrix[i].run_id # RunId(round_no)

\* C12: when the child cannot be launched, or the handshake's response is an
\* error or does not arrive in time, the run is aborted without a tool call, a
\* record or a matrix update for that pass, and an aborted run starts no round.
C12_StartupFailureAborts ==
    /\ [](LaunchFailed \/ HandshakeFailed => pc = "aborted" /\ NoPassEffects)
    /\ [][pc = "aborted" => pc' = "aborted" /\ round_no' = round_no /\ run_log' = run_log]_vars

\* The second round's handshake timed out after a complete first round.
C12_Witness ==
    /\ pc = "aborted"
    /\ round_no = 2
    /\ lastRpc.req = 1
    /\ lastRpc.out = "timed out"
    /\ Len(run_log) = NumTools
    /\ child \in {"terminated", "killed"}

\* C13: every record that did not pass has an issue identifier and a root-cause
\* text, whether the call raised or its response was flagged as an error; every
\* record that passed has no issue identifier.
C13_FailedRecordsDiagnosed ==
    \A k \in DOMAIN run_log :
        /\ run_log[k].passed = No => (run_log[k].issue_id # "" /\ run_log[k].root_cause # "")
        /\ run_log[k].passed = Yes => run_log[k].issue_id = ""

\* The pass is over: the run ended, or the next round has not started yet.
PassOver == pc \in {"done", "aborted"} \/ (pc = "boot" /\ round_no > 1)

\* C14: however a pass ends, close() has run: the client holds no process and
\* the child is not running; a child that was running when the pass ended has
\* been terminated, or killed when it did not exit within the grace period.
C14_ChildNotLeftRunning ==
    /\ [](PassOver => proc = "none" /\ child # "running")
    /\ [][(~PassOver /\ PassOver' /\ child = "running") => child' \in {"terminated", "killed"}]_vars

\* The handshake timed out without any line from the child, and the child, which
\* did not exit on terminate(), was killed.
C14_Witness ==
    /\ pc = "aborted"
    /\ lastRpc.req = 1
    /\ lastRpc.out = "timed out"
    /\ lastRpc.skipped = <<>>
    /\ ~lastRpc.replied
    /\ child = "killed"
    /\ proc = "none"

\* The result's envelope is flagged as an error.
IsErrorFlag(result) == "isError" \in DOMAIN result.d /\ result.d["isError"] = [t |-> "bool", b |-> TRUE]

\* C15: the record of a tool call that returned a result passed exactly when the
\* result is not flagged as an error, whatever its text is and whatever the
\* extraction made of it.
C15_PassFlagFromEnvelope ==
    (pc = "ready" /\ lastRpc.out = "result" /\ lastRpc.req > 1) =>
        /\ run_log[Len(run_log)].tool = TOOLS[opIdx - 1].name
        /\ run_log[Len(run_log)].passed = YesNo(~IsErrorFlag(lastRpc.line.result))

\* scan_sessions returned a text that is not JSON: nothing was extracted from it,
\* and its record passed.
C15_Witness ==
    /\ pc = "ready"
    /\ opIdx = 2
    /\ lastRpc.out = "result"
    /\ ~IsErrorFlag(lastRpc.line.result)
    /\ run_log[1].actual = "garbled"
    /\ run_log[1].passed = Yes
    /\ "session_path" \notin DOMAIN dynamic_context.d

(***************************************************************************)
(* Properties of the session, continued.                                   *)
(***************************************************************************)
Initialized == "notifications/initialized"

\* C16: the first message written to the child is the handshake request; the
\* initialized notification, which has no id, is the second, written in the step
\* in which the handshake's own response, not an error, was read; every tool
\* call comes after the notification.
C16_HandshakeOrder ==
    /\ [](/\ stdin # <<>> => (stdin[1].method = "initialize" /\ stdin[1].id = 1)
          /\ pc = "handshake" => Len(stdin) = 1
          /\ \A j \in DOMAIN stdin :
                /\ stdin[j].method = "initialize" => j = 1
                /\ stdin[j].method = Initialized => (j = 2 /\ stdin[j].id = NoId)
                /\ stdin[j].method = "tools/call" =>
                      (j >= 3 /\ stdin[2].method = Initialized))
    /\ [][(Len(stdin') = 2 /\ Len(stdin) = 1) =>
              /\ stdin'[2].method = Initialized
              /\ pc = "handshake"
              /\ lastRpc'.req = 1
              /\ lastRpc'.out = "result"
              /\ lastRpc'.line.id = 1
              /\ ~lastRpc'.line.has_error]_vars

\* The first tool call was written after the handshake, whose response came
\* behind a notification of the child, and the initialized notification.
C16_Witness ==
    /\ pc = "call"
    /\ opIdx = 1
    /\ Len(stdin) = 3
    /\ stdin[1].method = "initialize"
    /\ stdin[2].method = Initialized
    /\ stdin[3].method = "tools/call"
    /\ lastRpc.req = 1
    /\ lastRpc.out = "result"
    /\ Len(lastRpc.skipped) = 1

\* The messages of the session that expect a reply.
Requests == SelectSeq(stdin, LAMBDA m : m.method # Initialized)

\* C17: the k-th request of a session that expects a reply has the id k, also
\* after requests that timed out or failed; every call made takes the next id;
\* the notification has no id and takes none.
C17_RequestIds ==
    /\ \A k \in 1..Len(Requests) : Requests[k].id = k
    /\ \A j \in DOMAIN stdin : stdin[j].method = Initialized => stdin[j].id = NoId
    /\ \A k \in 1..Len(RoundAttempts) : RoundAttempts[k].id = k + 1
    /\ pc \in {"handshake", "ready", "call"} => request_id = 2 + Len(RoundAttempts)

\* The request written after a call that timed out has the next id.
C17_Witness ==
    /\ pc = "call"
    /\ Len(run_log) >= 1
    /\ run_log[Len(run_log)].error_msg = "timed out"
    /\ Len(Requests) >= 3
    /\ Requests[Len(Requests)].id = Requests[Len(Requests) - 1].id + 1
    /\ Requests[Len(Requests)].id = req_id

(***************************************************************************)
(* Properties of the cross-call context.                                   *)
(***************************************************************************)
OwnPostId == IF "own_post_id" \in DOMAIN dynamic_context.d
             THEN dynamic_context.d["own_post_id"]
             ELSE [t |-> "null"]

\* C18: within a pass no entry leaves the context, and the own-post id, once
\* post_to_codeblog's result has set it, stays what it is when confirm_post's
\* result carries another id.
C18_ContextGrows ==
    /\ [][pc # "boot" => DOMAIN dynamic_context.d \subseteq DOMAIN dynamic_context'.d]_vars
    /\ [][(pc # "boot" /\ OwnPostId # [t |-> "null"]) => OwnPostId' = OwnPostId]_vars
    /\ []((\E k \in 1..Len(RoundRows) :
              RoundRows[k].tool = "post_to_codeblog" /\ RoundRows[k].actual = "posted")
          => OwnPostId = [t |-> "str", s |-> "own1", len |-> 4, tail |-> ""])

\* confirm_post returned a text with another post id after post_to_codeblog had
\* set the own-post id.
C18_Witness ==
    /\ pc = "ready"
    /\ opIdx = 9
    /\ run_log[4].actual = "posted"
    /\ run_log[8].actual = "confirmed"
    /\ lastRpc.out = "result"
    /\ OwnPostId = [t |-> "str", s |-> "own1", len |-> 4, tail |-> ""]

\* The operations whose result the extraction takes the entry from.
Producers(key) ==
    CASE key \in {"session_path", "session_source"} -> {"scan_sessions"}
      [] key = "post_id" -> {"browse_posts"}
      [] key = "preview_id" -> {"preview_post"}
      [] key = "own_post_id" -> {"post_to_codeblog", "confirm_post"}
      [] key \in {"raw_stats", "stats_date", "stats_tz"} -> {"collect_daily_stats"}
      [] OTHER -> {}

CredentialKeys == {"qa_email", "qa_password"}

\* C19: a pass starts with a context that holds the credentials only and with a
\* session whose first request has the id 1; every other entry of the context a
\* call's arguments are resolved from was extracted from the result of a call
\* that returned earlier in the same pass.
C19_PassesIndependent ==
    /\ pc = "handshake" =>
          /\ DOMAIN dynamic_context.d = CredentialKeys
          /\ Len(stdin) = 1 /\ stdin[1].id = 1
          /\ req_id = 1
    /\ \A r \in 1..round_no :
          LET as == AttemptsOf(r)
              rs == RecordsOf(r)
          IN  \A k \in 1..Len(as) :
                /\ as[k].id = k + 1
                /\ \A key \in DOMAIN as[k].context.d \ CredentialKeys :
                      \E j \in 1..(k - 1) :
                          /\ j <= Len(rs)
                          /\ rs[j].tool \in Producers(key)
                          /\ rs[j].error_msg = ""

\* In the second round scan_sessions failed and read_session was called without
\* arguments, although the first round had called it with the session it found.
C19_Witness ==
    /\ round_no = 2
    /\ \E i, j \in DOMAIN attempts :
          /\ attempts[i].round = 1 /\ attempts[i].tool = "read_session"
          /\ attempts[i].arguments # EmptyDict
          /\ attempts[j].round = 2 /\ attempts[j].tool = "read_session"
          /\ attempts[j].arguments = EmptyDict
          /\ attempts[j].id = 3
          /\ "session_path" \notin DOMAIN attempts[j].context.d

(***************************************************************************)
(* Properties of the run log and the matrix together.                      *)
(***************************************************************************)
\* The number of matrix rows the current pass has updated.
UpdatedInPass == Cardinality({ i \in 1..Len(matrix) : matrix[i].run_id = RunId(round_no) })

\* C20: in every pass the k-th record and the k-th matrix update are for the k-th
\* descriptor; the record of an operation is appended and its row updated before
\* the request of the next operation is written; the log is only appended to, and
\* the records of an earlier round precede those of a later one.
C20_CatalogOrder ==
    /\ [](/\ \A r \in 1..round_no :
                LET rs == RecordsOf(r)
                IN  \A k \in 1..Len(rs) : rs[k].tool = TOOLS[k].name
          /\ \A i, j \in 1..Len(run_log) : i < j => run_log[i].round <= run_log[j].round
          /\ \A k \in 1..Len(matrix) :
                matrix[k].run_id = RunId(round_no) <=>
                    (k <= Len(RoundRows) /\ matrix[k].name = RoundRows[k].tool)
          /\ \A i, j \in 1..Len(RoundRows) : i < j => matrix[i].updated < matrix[j].updated
          /\ pc # "boot" =>
                \A k \in 1..Len(ToolCalls) :
                    /\ ToolCalls[k].name = TOOLS[k].name
                    /\ k - 1 <= Len(RoundRows)
                    /\ k - 1 <= UpdatedInPass)
    /\ [][/\ Len(run_log') >= Len(run_log)
          /\ \A k \in 1..Len(run_log) : run_log'[k] = run_log[k]
          /\ Len(ToolCalls') > Len(ToolCalls) =>
                (Len(RoundRows) = Len(ToolCalls) /\ UpdatedInPass = Len(ToolCalls))]_vars

\* The second round has recorded its first operation and written the request of
\* its second, after a complete first round.
C20_Witness ==
    /\ round_no = 2
    /\ pc = "call"
    /\ opIdx = 2
    /\ Len(run_log) = NumTools + 1
    /\ run_log[NumTools].round = 1
    /\ run_log[NumTools + 1].round = 2
    /\ run_log[NumTools + 1].tool = TOOLS[1].name
    /\ matrix[1].run_id = RunId(2)
    /\ matrix[2].run_id = RunId(1)

(***************************************************************************)
(* Properties of masking within the pass.                                  *)
(***************************************************************************)
\* The values masking puts in the place of a value.
MaskMarks ==
    { [t |-> "str", s |-> "***", len |-> 3, tail |-> ""],
      [t |-> "str", s |-> "[stats_json]", len |-> 12, tail |-> ""] }

\* C21: the request of every call carries the arguments as they were resolved
\* from the context, unmasked; the record of the call holds their masked copy;
\* the context never holds a masked value.
C21_MaskOnlyInLog ==
    /\ \A k \in 1..Len(RoundAttempts) :
          LET a == RoundAttempts[k]
          IN  /\ a.sent =>
                    \E j \in DOMAIN stdin :
                        /\ stdin[j].id = a.id
                        /\ stdin[j].arguments = a.arguments
                        /\ \A key \in DOMAIN stdin[j].arguments.d :
                              stdin[j].arguments.d[key] \notin MaskMarks
              /\ (a.tool = "codeblog_setup" /\ "password" \in DOMAIN a.arguments.d) =>
                    a.arguments.d["password"] = a.context.d["qa_password"]
              /\ (a.tool = "save_daily_report" /\ "stats" \in DOMAIN a.arguments.d) =>
                    a.arguments.d["stats"].of = a.context.d["raw_stats"]
              /\ k <= Len(RoundRows) => Masked(a.arguments, "", RoundRows[k].args)
    /\ \A key \in DOMAIN dynamic_context.d : dynamic_context.d[key] \notin MaskMarks

\* codeblog_setup was called with the password, its record holds "***" in the
\* password's place, and the context still holds the password.
C21_Witness ==
    /\ \E j \in DOMAIN stdin :
          /\ stdin[j].name = "codeblog_setup"
          /\ "password" \in DOMAIN stdin[j].arguments.d
          /\ stdin[j].arguments.d["password"] = [t |-> "str", s |-> "secret", len |-> 6, tail |-> ""]
    /\ \E k \in DOMAIN run_log :
          /\ run_log[k].tool = "codeblog_setup"
          /\ "password" \in DOMAIN run_log[k].args.d
          /\ run_log[k].args.d["password"] = [t |-> "str", s |-> "***", len |-> 3, tail |-> ""]
    /\ "qa_password" \in DOMAIN dynamic_context.d
    /\ dynamic_context.d["qa_password"] = [t |-> "str", s |-> "secret", len |-> 6, tail |-> ""]

(***************************************************************************)
(* Properties of the destructive operations.                               *)
(***************************************************************************)
\* The post id in the text of a record of post_to_codeblog or confirm_post.
PostIdIn(actual) ==
    CASE actual = "posted" -> [t |-> "str", s |-> "own1", len |-> 4, tail |-> ""]
      [] actual = "confirmed" -> [t |-> "str", s |-> "own2", len |-> 4, tail |-> ""]
      [] OTHER -> [t |-> "null"]

BrowsedId == [t |-> "str", s |-> "b1", len |-> 2, tail |-> ""]

Extracted(tool, name) ==
    CASE tool = "scan_sessions" /\ name = "sessions" ->
             [session_path |-> [t |-> "str", s |-> "p1", len |-> 2, tail |-> ""],
              session_source |-> [t |-> "str", s |-> "s1", len |-> 2, tail |-> ""]]
      [] tool = "browse_posts" /\ name = "posts" -> [post_id |-> BrowsedId]
      [] tool = "preview_post" /\ name = "preview" ->
             [preview_id |-> [t |-> "str", s |-> "pv1", len |-> 3, tail |-> ""]]
      [] tool = "post_to_codeblog" /\ name = "posted" -> [own_post_id |-> PostIdIn("posted")]
      [] tool = "collect_daily_stats" /\ name = "stats" ->
             [stats_date |-> [t |-> "str", s |-> "d1", len |-> 10, tail |-> ""],
              stats_tz |-> [t |-> "str", s |-> "tz1", len |-> 3, tail |-> ""]]
      [] OTHER -> <<>>

\* C23: when a call returns a result, flagged as an error or not, the context
\* takes the entries found in its text and keeps every entry the operation does
\* not produce; when a call raises, the context stays as it was.
C23_ExtractionOnEveryResult ==
    [][(opIdx >= 1 /\ opIdx' = opIdx + 1) =>
          IF lastRpc'.out = "result"
          THEN LET tool == TOOLS[opIdx].name
                   name == lastRpc'.line.result.d["content"][1].text.name
                   found == Extracted(tool, name)
               IN  /\ \A key \in DOMAIN found :
                         /\ key \in DOMAIN dynamic_context'.d
                         /\ dynamic_context'.d[key] = found[key]
                   /\ \A key \in DOMAIN dynamic_context.d :
                         tool \notin Producers(key) =>
                             (/\ key \in DOMAIN dynamic_context'.d
                              /\ dynamic_context'.d[key] = dynamic_context.d[key])
          ELSE dynamic_context' = dynamic_context]_vars

\* The result of scan_sessions was flagged as an error: its record did not pass,
\* and the context holds the session found in its text.
C23_Witness ==
    /\ pc = "ready"
    /\ opIdx = 2
    /\ lastRpc.out = "result"
    /\ IsErrorFlag(lastRpc.line.result)
    /\ run_log[1].passed = No
    /\ "session_path" \in DOMAIN dynamic_context.d
    /\ dynamic_context.d["session_path"] = [t |-> "str", s |-> "p1", len |-> 2, tail |-> ""]

====
